---- MODULE Spec2Model ----
(***************************************************************************)
(* Metadata index of the photo portfolio: the Cloudflare Pages functions   *)
(* that keep photo records in a flat KV namespace (PHOTO_KV) under the two *)
(* key families  data:<invertedTs>:<id>  and  lookup:<id>,  and the image  *)
(* bytes in an object bucket (PHOTO_BUCKET).                               *)
(*                                                                         *)
(* Every handler is one action: requests are served one at a time, each    *)
(* running to completion, and the clock advances between requests.         *)
(***************************************************************************)
EXTENDS Integers, Sequences, FiniteSets, TLC

\* ------------------------------------------------------------------------
\* Bounds of the model
\* ------------------------------------------------------------------------

\* number of distinct photo ids (ids are 1..MaxIds)
MaxIds == 2

\* number of clock instants a request can arrive at
MaxClock == 3

\* number of requests in a run
MaxOps == 3

\* largest page number a listing request asks for
MaxPage == 2

\* largest page size a listing request asks for
MaxPageSize == 2

\* largest number of ids in a batch request
MaxBatch == 2

\* number of requests that can be in flight at the same time
MaxTasks == 2

\* how far the sizes of the stores and the pages of a scan go past the scan
\* ceiling
MaxBeyond == 2

\* ------------------------------------------------------------------------
\* Numbers that do not fit a machine integer of the checker are sequences
\* of decimal digits, most significant first; a string is the sequence of
\* its character codes.
\* ------------------------------------------------------------------------

\* number of decimal digits of the ceiling 9999999999999
TsDigits == 13

Ids == 1..MaxIds

\* meta.id of a request that carries no id (a new upload)
NoId == 0

\* the thirteen-digit number whose first digit is first, whose last digit is
\* last and whose other digits are fill
Number(first, fill, last) ==
    [i \in 1..TsDigits |-> IF i = 1 THEN first ELSE IF i = TsDigits THEN last ELSE fill]

\* Date.now() at clock instant c, in milliseconds: an instant of the present
\* (1700000000000), the last millisecond whose inverted timestamp has
\* thirteen digits (8999999999999), and the milliseconds from 9000000000000
\* on, all before the ceiling.
Instant(c) ==
    IF c <= 1 THEN [Number(1, 0, 0) EXCEPT ![2] = 7]
    ELSE IF c = 2 THEN Number(8, 9, 9)
    ELSE Number(9, 0, (c - 3) % 10)

\* 9999999999999 - timestamp: no digit of the ceiling borrows
invertedTs(timestamp) == [i \in 1..TsDigits |-> 9 - timestamp[i]]

\* index of the first non-zero digit (the last digit when all are zero)
RECURSIVE FirstSignificant(_, _)
FirstSignificant(n, i) ==
    IF i >= Len(n) \/ n[i] # 0 THEN i ELSE FirstSignificant(n, i + 1)

\* `${n}`: the decimal string of a number, without leading zeros
NumberToString(n) ==
    LET s == FirstSignificant(n, 1)
    IN  [i \in 1..(Len(n) - s + 1) |-> 48 + n[s + i - 1]]

\* the number a decimal string of at most thirteen digits denotes
StringToNumber(s) ==
    [i \in 1..TsDigits |-> IF i <= TsDigits - Len(s) THEN 0 ELSE s[i - (TsDigits - Len(s))] - 48]

\* n < m for two numbers of thirteen digits
NumberLess(n, m) ==
    \E i \in 1..TsDigits : n[i] < m[i] /\ \A j \in 1..(i - 1) : n[j] = m[j]

\* the id as a string: one character, 'a' for id 1, 'b' for id 2, ...
IdString(id) == <<96 + id>>

\* a < b in the byte order of strings (the order of KV list)
StringLess(a, b) ==
    \E i \in 1..Len(b) :
        /\ i <= Len(a) + 1
        /\ \A j \in 1..(i - 1) : a[j] = b[j]
        /\ (i = Len(a) + 1 \/ a[i] < b[i])

\* ------------------------------------------------------------------------
\* Keys of PHOTO_KV and of PHOTO_BUCKET
\* ------------------------------------------------------------------------

\* `data:${invertedTs}:${photoId}`
dataKey(inv, photoId) == [fam |-> "data", ts |-> NumberToString(inv), id |-> photoId]

\* `lookup:${photoId}`
lookupKey(photoId) == [fam |-> "lookup", ts |-> <<>>, id |-> photoId]

\* what follows the family prefix in the key string: <ts>:<id> (58 is ':')
KeyString(k) == k.ts \o <<58>> \o IdString(k.id)

\* `photos/${photoId}${suffix}.jpg`
photoObjectKey(photoId, suffix) == <<"photos", photoId, suffix>>

\* the empty string as an object key or url
EmptyString == <<>>

\* `${env.IMAGE_BASE_URL}/${objectKey}`
imageUrl(objectKey) == <<"base">> \o objectKey


\* ------------------------------------------------------------------------
\* State
\* ------------------------------------------------------------------------

VARIABLES
    PHOTO_KV,      \* the KV namespace: key -> value, for the keys present
    PHOTO_BUCKET,  \* the object bucket: object key -> content type
    clock,         \* the current instant
    usedIds,       \* the ids a record has been written for
    ops,           \* number of requests served
    req,           \* the latest request
    resp,          \* the response to the latest request
    tasks,         \* the requests in flight, when handlers interleave
    photos         \* the photo list of the front end (the photos state)

vars == <<PHOTO_KV, PHOTO_BUCKET, clock, usedIds, ops, req, resp, tasks, photos>>

\* the empty object {} and the store without keys
EmptyObject == [f \in {} |-> 0]

\* env.PHOTO_KV.put(key, value), env.PHOTO_BUCKET.put(key, value)
Put(store, key, value) ==
    [k \in DOMAIN store \cup {key} |-> IF k = key THEN value ELSE store[k]]

\* env.PHOTO_KV.delete(key), env.PHOTO_BUCKET.delete(key): no-op when absent
Delete(store, key) == [k \in DOMAIN store \ {key} |-> store[k]]

\* env.PHOTO_KV.get(key) !== null
Has(store, key) == key \in DOMAIN store

\* {...a, ...b}
Spread(a, b) ==
    [f \in DOMAIN a \cup DOMAIN b |-> IF f \in DOMAIN b THEN b[f] ELSE a[f]]

\* obj.field || fallback, for a field that is absent or holds a value
FieldOr(obj, field, fallback) ==
    IF field \in DOMAIN obj THEN obj[field] ELSE fallback

\* the keys of the data: family that are present
DataKeys(kv) == {k \in DOMAIN kv : k.fam = "data"}

\* ------------------------------------------------------------------------
\* Request inputs
\* ------------------------------------------------------------------------

\* the JSON of the meta form field, less its id
Metas ==
    { [title |-> "Dawn", category |-> "landscape", width |-> 4, height |-> 3],
      [title |-> "Dusk", category |-> "street", width |-> 3, height |-> 4,
       description |-> "pier", rating |-> 5,
       exif |-> [camera |-> "Z6", lens |-> "50mm"]] }

\* the meta of a request that is answered before its meta is used
AnyMeta == [title |-> "Dawn", category |-> "landscape", width |-> 4, height |-> 3]

\* a form field that carries no file
NoFile == [type |-> "none", size |-> 0]

\* a file part without bytes
EmptyFile == [type |-> "image/jpeg", size |-> 0]

JpegFile == [type |-> "image/jpeg", size |-> 1]

PngFile == [type |-> "image/png", size |-> 2]

\* crypto.randomUUID(): an id no record has been written for
FreshIds == Ids \ usedIds

\* a response
Response(op, status, id) ==
    [op |-> op, status |-> status, id |-> id, results |-> <<>>, items |-> <<>>]

\* a request is answered without a write to a store
Answer(request, response) ==
    /\ req' = request
    /\ resp' = response
    /\ UNCHANGED <<PHOTO_KV, PHOTO_BUCKET, usedIds>>

\* the slots of the requests in flight
Procs == 1..MaxTasks

\* a slot without a request
IdleTask == [pc |-> "idle", op |-> "none"]

\* a request is served: the bound of the run
Served ==
    /\ ops < MaxOps
    /\ ops' = ops + 1
    /\ UNCHANGED <<clock, tasks, photos>>

Init ==
    /\ PHOTO_KV = EmptyObject
    /\ PHOTO_BUCKET = EmptyObject
    /\ clock = 1
    /\ usedIds = {}
    /\ ops = 0
    /\ req = [op |-> "none"]
    /\ resp = Response("none", 0, NoId)
    /\ tasks = [p \in Procs |-> IdleTask]
    /\ photos = <<>>

\* time passes between two requests
Tick ==
    /\ clock < MaxClock
    /\ clock' = clock + 1
    /\ UNCHANGED <<PHOTO_KV, PHOTO_BUCKET, usedIds, ops, req, resp, tasks, photos>>

\* ------------------------------------------------------------------------
\* POST /api/upload, the create-only handler
\* ------------------------------------------------------------------------

\* the requests of the create-only handler
CreateRequests ==
    { [op |-> "create", authorized |-> FALSE, hasMeta |-> TRUE, meta |-> AnyMeta, file |-> PngFile],
      [op |-> "create", authorized |-> TRUE, hasMeta |-> FALSE, meta |-> AnyMeta, file |-> PngFile],
      [op |-> "create", authorized |-> TRUE, hasMeta |-> TRUE, meta |-> AnyMeta, file |-> NoFile] }
    \cup { [op |-> "create", authorized |-> TRUE, hasMeta |-> TRUE, meta |-> m, file |-> PngFile] :
             m \in Metas }

\* the record the create-only handler stores
CreatePhotoData(photoId, meta, file, now) ==
    [ id |-> photoId,
      title |-> meta.title,
      description |-> "",
      tags |-> <<meta.category>>,
      created_at |-> now,
      updated_at |-> now,
      object_key |-> photoObjectKey(photoId, ""),
      mime |-> file.type,
      size_bytes |-> file.size,
      width |-> meta.width,
      height |-> meta.height,
      exif |-> FieldOr(meta, "exif", EmptyObject),
      rating |-> FieldOr(meta, "rating", 0),
      is_public |-> 1,
      url |-> imageUrl(photoObjectKey(photoId, "")) ]

UploadCreate(r, photoId) ==
    LET key == dataKey(invertedTs(Instant(clock)), photoId)
        kv1 == Put(PHOTO_KV, key, CreatePhotoData(photoId, r.meta, r.file, clock))
    IN  /\ Served
        /\ IF ~r.authorized
           THEN Answer(r, Response("create", 401, NoId))
           ELSE IF r.file = NoFile \/ ~r.hasMeta
           THEN Answer(r, Response("create", 400, NoId))
           ELSE /\ PHOTO_BUCKET' = Put(PHOTO_BUCKET, photoObjectKey(photoId, ""), r.file.type)
                /\ PHOTO_KV' = Put(kv1, lookupKey(photoId), key)
                /\ usedIds' = usedIds \cup {photoId}
                /\ req' = r
                /\ resp' = Response("create", 200, photoId)

\* ------------------------------------------------------------------------
\* POST /api/upload, the handler that creates or edits with a single file
\* ------------------------------------------------------------------------

\* the requests of the handler
EditRequests ==
    { [op |-> "upload_edit", authorized |-> FALSE, hasMeta |-> TRUE, id |-> NoId,
       meta |-> AnyMeta, file |-> JpegFile],
      [op |-> "upload_edit", authorized |-> TRUE, hasMeta |-> FALSE, id |-> NoId,
       meta |-> AnyMeta, file |-> JpegFile] }
    \cup { [op |-> "upload_edit", authorized |-> TRUE, hasMeta |-> TRUE, id |-> i,
            meta |-> m, file |-> f] :
             i \in Ids \cup {NoId}, m \in Metas, f \in {NoFile, JpegFile} }
    \cup { [op |-> "upload_edit", authorized |-> TRUE, hasMeta |-> TRUE, id |-> i,
            meta |-> AnyMeta, file |-> EmptyFile] : i \in Ids \cup {NoId} }

\* the created_at property of a stored record, when it has one
CreatedAtOf(data) ==
    IF "created_at" \in DOMAIN data THEN [created_at |-> data.created_at] ELSE EmptyObject

\* an edit that stores no exif
EditExifDropped(meta) == EmptyObject

\* exif: meta.exif || {}
EditExif(meta) == FieldOr(meta, "exif", EmptyObject)

\* an edit that stamps the record with the time of the edit
EditCreatedAtNow(isEdit, hasLookup, kv, existingDataKey, now) == [created_at |-> now]

\* created_at: undefined for an edit, then the created_at of the record the
\* lookup key leads to; now for a new upload
EditCreatedAt(isEdit, hasLookup, kv, existingDataKey, now) ==
    IF isEdit
    THEN (IF hasLookup THEN CreatedAtOf(kv[existingDataKey]) ELSE EmptyObject)
    ELSE [created_at |-> now]

\* an edit that bumps the record to a key of the current time
EditDataKeyBump(isEdit, hasLookup, existingDataKey, newKey) == newKey

\* dataKey: the key the lookup key holds for an edit, else the new key
EditDataKey(isEdit, hasLookup, existingDataKey, newKey) ==
    IF isEdit /\ hasLookup THEN existingDataKey ELSE newKey

\* objectKey, imageUrl, mimeType, sizeBytes: of the file (SCENARIO A) or of
\* the stored record (SCENARIO B)
EditFileInfo(withFile, file, photoId, existingData) ==
    IF withFile
    THEN [object_key |-> photoObjectKey(photoId, ""),
          url |-> imageUrl(photoObjectKey(photoId, "")),
          mime |-> file.type,
          size_bytes |-> file.size]
    ELSE [object_key |-> existingData.object_key,
          url |-> existingData.url,
          mime |-> existingData.mime,
          size_bytes |-> existingData.size_bytes]

\* the record the handler stores (a property that is undefined is not
\* serialised by JSON.stringify)
EditPhotoData(photoId, meta, now, info, createdAt) ==
    Spread(
    [ id |-> photoId,
      title |-> meta.title,
      description |-> FieldOr(meta, "description", ""),
      tags |-> <<meta.category>>,
      updated_at |-> now,
      object_key |-> info.object_key,
      mime |-> info.mime,
      size_bytes |-> info.size_bytes,
      width |-> meta.width,
      height |-> meta.height,
      exif |-> EditExif(meta),
      rating |-> FieldOr(meta, "rating", 0),
      is_public |-> 1,
      url |-> info.url ], createdAt)

UploadWithEdit(r, photoId) ==
    LET isEdit == r.id # NoId
        withFile == r.file # NoFile /\ r.file.size > 0
        lookup == lookupKey(photoId)
        hasLookup == Has(PHOTO_KV, lookup)
        existingDataKey == PHOTO_KV[lookup]
        hasData == hasLookup /\ Has(PHOTO_KV, existingDataKey)
        info == EditFileInfo(withFile, r.file, photoId, PHOTO_KV[existingDataKey])
        bucket1 == IF withFile THEN Put(PHOTO_BUCKET, info.object_key, r.file.type)
                   ELSE PHOTO_BUCKET
        createdAt == EditCreatedAt(isEdit, hasLookup, PHOTO_KV, existingDataKey, clock)
        newKey == dataKey(invertedTs(Instant(clock)), photoId)
        key == EditDataKey(isEdit, hasLookup, existingDataKey, newKey)
        kv1 == IF isEdit /\ hasLookup THEN PHOTO_KV ELSE Put(PHOTO_KV, lookup, newKey)
        photoData == EditPhotoData(photoId, r.meta, clock, info, createdAt)
        response(status) == Response("upload_edit", status, IF status = 200 THEN photoId ELSE r.id)
    IN  /\ Served
        /\ IF ~r.authorized
           THEN Answer(r, response(401))
           ELSE IF ~r.hasMeta
           THEN Answer(r, response(400))
           ELSE IF ~withFile /\ isEdit /\ ~hasLookup
           THEN Answer(r, response(404))
           ELSE IF ~withFile /\ isEdit /\ ~hasData
           THEN Answer(r, response(500))
           ELSE IF ~withFile /\ ~isEdit
           THEN Answer(r, response(400))
           ELSE IF isEdit /\ hasLookup /\ ~hasData
           THEN \* reading created_at of null throws after the object is stored
                /\ PHOTO_BUCKET' = bucket1
                /\ UNCHANGED <<PHOTO_KV, usedIds>>
                /\ req' = r
                /\ resp' = response(500)
           ELSE /\ PHOTO_BUCKET' = bucket1
                /\ PHOTO_KV' = Put(kv1, key, photoData)
                /\ usedIds' = usedIds \cup {photoId}
                /\ req' = r
                /\ resp' = response(200)

\* ------------------------------------------------------------------------
\* POST /api/upload, the handler that creates or edits with size variants
\* ------------------------------------------------------------------------

\* the files of a multipart form: file_small, file_medium, file_large, file
Forms ==
    { [small |-> NoFile, medium |-> NoFile, large |-> NoFile, legacy |-> NoFile],
      [small |-> NoFile, medium |-> NoFile, large |-> NoFile, legacy |-> JpegFile],
      [small |-> JpegFile, medium |-> JpegFile, large |-> PngFile, legacy |-> NoFile] }

\* the requests of the handler
VariantRequests ==
    { [op |-> "upload", authorized |-> FALSE, hasMeta |-> TRUE, id |-> NoId,
       meta |-> AnyMeta, form |-> CHOOSE f \in Forms : f.legacy # NoFile],
      [op |-> "upload", authorized |-> TRUE, hasMeta |-> FALSE, id |-> NoId,
       meta |-> AnyMeta, form |-> CHOOSE f \in Forms : f.legacy # NoFile] }
    \cup { [op |-> "upload", authorized |-> TRUE, hasMeta |-> TRUE, id |-> i,
            meta |-> m, form |-> f] :
             i \in Ids \cup {NoId}, m \in Metas, f \in Forms }

\* fileSmall || fileMedium || fileLarge
AnyVariant(form) == form.small # NoFile \/ form.medium # NoFile \/ form.large # NoFile

\* the suffix of the object of a form field
Suffix(field) ==
    IF field = "small" THEN "_s" ELSE IF field = "medium" THEN "_m"
    ELSE IF field = "large" THEN "_l" ELSE ""

\* the form fields whose file uploadVariant stores
UploadedFields(form) ==
    IF AnyVariant(form) THEN {f \in {"small", "medium", "large"} : form[f] # NoFile}
    ELSE IF form.legacy # NoFile THEN {"legacy"} ELSE {}

\* the bucket after uploadVariant(file, suffix) for each file that is stored
UploadVariants(bucket, photoId, form) ==
    LET written == {photoObjectKey(photoId, Suffix(f)) : f \in UploadedFields(form)}
        fieldOf(key) == CHOOSE f \in UploadedFields(form) : photoObjectKey(photoId, Suffix(f)) = key
    IN  [k \in DOMAIN bucket \cup written |->
            IF k \in written THEN form[fieldOf(k)].type ELSE bucket[k]]

\* the urls object after the uploads and after the missing sizes are filled
VariantUrls(existingUrls, mainUrl, photoId, form) ==
    LET uploaded ==
            IF AnyVariant(form)
            THEN Spread(existingUrls,
                        [f \in UploadedFields(form) |->
                            imageUrl(photoObjectKey(photoId, Suffix(f)))])
            ELSE IF form.legacy # NoFile
            THEN [f \in {"small", "medium", "large"} |-> imageUrl(photoObjectKey(photoId, ""))]
            ELSE existingUrls
        missing == {f \in {"small", "medium", "large"} :
                      f \notin DOMAIN uploaded \/ uploaded[f] = EmptyString}
    IN  IF mainUrl # EmptyString
        THEN Spread(uploaded, [f \in missing |-> mainUrl])
        ELSE uploaded

\* objectKey, mainUrl, sizeBytes: of the large or the single file when the
\* form has one, else of the stored record, else empty
VariantFileInfo(form, photoId, existingData) ==
    IF AnyVariant(form) /\ form.large # NoFile
    THEN [object_key |-> photoObjectKey(photoId, "_l"),
          url |-> imageUrl(photoObjectKey(photoId, "_l")),
          size_bytes |-> form.large.size]
    ELSE IF ~AnyVariant(form) /\ form.legacy # NoFile
    THEN [object_key |-> photoObjectKey(photoId, ""),
          url |-> imageUrl(photoObjectKey(photoId, "")),
          size_bytes |-> form.legacy.size]
    ELSE [object_key |-> FieldOr(existingData, "object_key", EmptyString),
          url |-> FieldOr(existingData, "url", EmptyString),
          size_bytes |-> FieldOr(existingData, "size_bytes", 0)]

\* mime: 'image/jpeg'
VariantMime == "image/jpeg"

\* an upload that stores no exif
VariantExifEmpty(meta) == EmptyObject

\* exif: meta.exif || {}
VariantExif(meta) == FieldOr(meta, "exif", EmptyObject)

\* created_at: existingData ? existingData.created_at : now
VariantCreatedAt(hasData, existingData, now) ==
    IF hasData THEN CreatedAtOf(existingData) ELSE [created_at |-> now]

\* dataKey: the key the lookup key holds for an edit, else the new key
VariantDataKey(isEdit, hasLookup, existingDataKey, newKey) ==
    IF isEdit /\ hasLookup THEN existingDataKey ELSE newKey

\* the record the handler stores
VariantPhotoData(photoId, meta, now, info, urls, createdAt) ==
    Spread(
    [ id |-> photoId,
      title |-> meta.title,
      description |-> FieldOr(meta, "description", ""),
      tags |-> <<meta.category>>,
      updated_at |-> now,
      object_key |-> info.object_key,
      mime |-> VariantMime,
      size_bytes |-> info.size_bytes,
      width |-> meta.width,
      height |-> meta.height,
      exif |-> VariantExif(meta),
      rating |-> FieldOr(meta, "rating", 0),
      is_public |-> 1,
      url |-> info.url,
      urls |-> urls ], createdAt)

UploadWithVariants(r, photoId) ==
    LET isEdit == r.id # NoId
        lookup == lookupKey(photoId)
        hasLookup == Has(PHOTO_KV, lookup)
        existingDataKey == PHOTO_KV[lookup]
        \* existingData !== null
        hasData == isEdit /\ hasLookup /\ Has(PHOTO_KV, existingDataKey)
        existingData == IF hasData THEN PHOTO_KV[existingDataKey] ELSE EmptyObject
        info == VariantFileInfo(r.form, photoId, existingData)
        urls == VariantUrls(FieldOr(existingData, "urls", EmptyObject), info.url, photoId, r.form)
        createdAt == VariantCreatedAt(hasData, existingData, clock)
        newKey == dataKey(invertedTs(Instant(clock)), photoId)
        key == VariantDataKey(isEdit, hasLookup, existingDataKey, newKey)
        kv1 == IF isEdit /\ hasLookup THEN PHOTO_KV ELSE Put(PHOTO_KV, lookup, newKey)
        photoData == VariantPhotoData(photoId, r.meta, clock, info, urls, createdAt)
        response(status) == Response("upload", status, IF status = 200 THEN photoId ELSE r.id)
    IN  /\ Served
        /\ IF ~r.authorized
           THEN Answer(r, response(401))
           ELSE IF ~r.hasMeta
           THEN Answer(r, response(400))
           ELSE /\ PHOTO_BUCKET' = UploadVariants(PHOTO_BUCKET, photoId, r.form)
                /\ PHOTO_KV' = Put(kv1, key, photoData)
                /\ usedIds' = usedIds \cup {photoId}
                /\ req' = r
                /\ resp' = response(200)

\* ------------------------------------------------------------------------
\* DELETE /api/photos/:id
\* ------------------------------------------------------------------------

\* the requests of the handler
DeleteRequests ==
    { [op |-> "delete", authorized |-> FALSE, id |-> 1] }
    \cup { [op |-> "delete", authorized |-> TRUE, id |-> i] : i \in Ids }

\* the keys whose id is id among the keys of the data: family
DataKeysOf(kv, id) == {k \in DataKeys(kv) : k.id = id}

\* a delete that empties the bucket
DeleteObjectOfAll(bucket, kv, existingDataKey) == EmptyObject

\* step 3: the object the record names is removed from the bucket
DeleteObject(bucket, kv, existingDataKey) ==
    IF Has(kv, existingDataKey) /\ kv[existingDataKey].object_key # EmptyString
    THEN Delete(bucket, kv[existingDataKey].object_key)
    ELSE bucket

\* a delete that forgets the data key
DeleteKeysLookupOnly(kv, lookup, existingDataKey) == Delete(kv, lookup)

\* a delete that forgets the lookup key
DeleteKeysDataOnly(kv, lookup, existingDataKey) == Delete(kv, existingDataKey)

\* step 4: the lookup key and the data key are removed
DeleteKeys(kv, lookup, existingDataKey) == Delete(Delete(kv, lookup), existingDataKey)

\* a delete that reports success for an id it does not find
onRequestDeleteAbsentOk(r) ==
    /\ Served
    /\ IF ~r.authorized
       THEN Answer(r, Response("delete", 401, r.id))
       ELSE IF ~Has(PHOTO_KV, lookupKey(r.id))
       THEN Answer(r, Response("delete", 200, r.id))
       ELSE /\ PHOTO_BUCKET' = DeleteObject(PHOTO_BUCKET, PHOTO_KV, PHOTO_KV[lookupKey(r.id)])
            /\ PHOTO_KV' = DeleteKeys(PHOTO_KV, lookupKey(r.id), PHOTO_KV[lookupKey(r.id)])
            /\ UNCHANGED usedIds
            /\ req' = r
            /\ resp' = Response("delete", 200, r.id)

onRequestDelete(r) ==
    LET lookup == lookupKey(r.id)
    IN  /\ Served
        /\ IF ~r.authorized
           THEN Answer(r, Response("delete", 401, r.id))
           ELSE IF ~Has(PHOTO_KV, lookup)
           THEN Answer(r, Response("delete", 404, r.id))
           ELSE /\ PHOTO_BUCKET' = DeleteObject(PHOTO_BUCKET, PHOTO_KV, PHOTO_KV[lookup])
                /\ PHOTO_KV' = DeleteKeys(PHOTO_KV, lookup, PHOTO_KV[lookup])
                /\ UNCHANGED usedIds
                /\ req' = r
                /\ resp' = Response("delete", 200, r.id)

\* ------------------------------------------------------------------------
\* POST /api/batch_update
\* ------------------------------------------------------------------------

\* a request body without the updates property
NoUpdates == [missing |-> TRUE]

\* the updates property of a request body: two of the fields the handler
\* reads, and one it does not read
SomeUpdates == [camera |-> "M11", location |-> "Oslo", rating |-> 1]

\* the requests of the handler: every ids array of up to MaxBatch ids
BatchRequests ==
    { [op |-> "batch_update", authorized |-> FALSE, ids |-> <<1>>, updates |-> SomeUpdates] }
    \cup { [op |-> "batch_update", authorized |-> TRUE, ids |-> ids, updates |-> u] :
             ids \in UNION {[1..n -> Ids] : n \in 0..MaxBatch},
             u \in {SomeUpdates, NoUpdates} }

\* the exif fields a batch update can set
BatchFields == {"camera", "lens", "location", "date", "latitude", "longitude"}

\* a merge that stores the updates as the whole exif
MergeUpdatesReplace(photoData, updates) ==
    [photoData EXCEPT !.exif = [f \in DOMAIN updates \cap BatchFields |-> updates[f]]]

\* {...photoData, exif: {...photoData.exif, ...(the updates that are defined)}}
MergeUpdates(photoData, updates) ==
    [photoData EXCEPT !.exif =
        Spread(photoData.exif, [f \in DOMAIN updates \cap BatchFields |-> updates[f]])]

\* the outcome of one id of the batch against the store kv
BatchOutcome(kv, id, updates) ==
    IF ~Has(kv, lookupKey(id)) THEN "Not found"
    ELSE IF ~Has(kv, kv[lookupKey(id)]) THEN "Data missing"
    ELSE IF updates = NoUpdates THEN "TypeError"
    ELSE "ok"

\* the store after one id of the batch
BatchStep(kv, id, updates) ==
    IF BatchOutcome(kv, id, updates) = "ok"
    THEN Put(kv, kv[lookupKey(id)], MergeUpdates(kv[kv[lookupKey(id)]], updates))
    ELSE kv

\* a batch that stops at the first id that fails
RECURSIVE BatchStoreAbort(_, _, _, _)
BatchStoreAbort(kv, ids, updates, i) ==
    IF i > Len(ids) \/ BatchOutcome(kv, ids[i], updates) # "ok" THEN kv
    ELSE BatchStoreAbort(BatchStep(kv, ids[i], updates), ids, updates, i + 1)

\* the store after the ids i..Len(ids) of the batch
RECURSIVE BatchStore(_, _, _, _)
BatchStore(kv, ids, updates, i) ==
    IF i > Len(ids) THEN kv
    ELSE BatchStore(BatchStep(kv, ids[i], updates), ids, updates, i + 1)

\* the results array: one entry per element of ids, in the order of ids
BatchResults(kv, ids, updates) ==
    [i \in 1..Len(ids) |->
        [id |-> ids[i],
         success |-> BatchOutcome(kv, ids[i], updates) = "ok",
         error |-> BatchOutcome(kv, ids[i], updates)]]

BatchUpdate(r) ==
    /\ Served
    /\ IF ~r.authorized
       THEN Answer(r, Response("batch_update", 401, NoId))
       ELSE IF Len(r.ids) = 0
       THEN Answer(r, Response("batch_update", 400, NoId))
       ELSE /\ PHOTO_KV' = BatchStore(PHOTO_KV, r.ids, r.updates, 1)
            /\ UNCHANGED <<PHOTO_BUCKET, usedIds>>
            /\ req' = r
            /\ resp' = [Response("batch_update", 200, NoId) EXCEPT
                           !.results = BatchResults(PHOTO_KV, r.ids, r.updates)]

\* ------------------------------------------------------------------------
\* GET /api/photos
\* ------------------------------------------------------------------------

\* the most keys one call of KV list returns
ScanCeiling == 1000

Min(a, b) == IF a < b THEN a ELSE b

\* the keys of S in ascending byte order of their strings
RECURSIVE SortKeys(_)
SortKeys(S) ==
    IF S = {} THEN <<>>
    ELSE LET first == CHOOSE k \in S :
                        \A o \in S \ {k} : StringLess(KeyString(k), KeyString(o))
         IN  <<first>> \o SortKeys(S \ {first})

\* what a key scan with a limit yields of all the keys in key order: the
\* first limit keys, and never more than 1000
ScanKeys(all, limit) ==
    SubSeq(all, 1, Min(Min(limit, ScanCeiling), Len(all)))

\* PHOTO_KV.list({ prefix: 'data:', limit })
ListKeys(kv, limit) == ScanKeys(SortKeys(DataKeys(kv)), limit)

\* a slice that starts one key late
PageKeysLate(totalKeys, page, pageSize) ==
    LET startIndex == (page - 1) * pageSize + 1
    IN  IF startIndex >= Len(totalKeys) THEN <<>>
        ELSE SubSeq(totalKeys, startIndex + 1, Min(startIndex + pageSize, Len(totalKeys)))

\* a slice that wraps around to the first page past the last key
PageKeysWrap(totalKeys, page, pageSize) ==
    LET startIndex == (page - 1) * pageSize
    IN  IF startIndex >= Len(totalKeys) THEN SubSeq(totalKeys, 1, Min(pageSize, Len(totalKeys)))
        ELSE SubSeq(totalKeys, startIndex + 1, Min(startIndex + pageSize, Len(totalKeys)))

\* totalKeys.slice(startIndex, startIndex + pageSize), and no key from
\* startIndex >= totalKeys.length on
PageKeys(totalKeys, page, pageSize) ==
    LET startIndex == (page - 1) * pageSize
    IN  IF startIndex >= Len(totalKeys) THEN <<>>
        ELSE SubSeq(totalKeys, startIndex + 1, Min(startIndex + pageSize, Len(totalKeys)))

\* if (page < 1) page = 1
ClampPage(page) == IF page < 1 THEN 1 ELSE page

\* a page cut from all the keys, with no scan limit
ListPageOfAll(all, page, pageSize) ==
    PageKeys(all, ClampPage(page), pageSize)

\* the page of the handler that scans 1000 keys, all being the data keys of
\* the store in key order
ListPageOf(all, page, pageSize) ==
    PageKeys(ScanKeys(all, ScanCeiling), ClampPage(page), pageSize)

\* a scan of pageSize keys whatever the page
ListLimitPageOfSize(all, page, pageSize) ==
    PageKeys(ScanKeys(all, Min(pageSize, ScanCeiling)), ClampPage(page), pageSize)

\* the page of the handler that scans page * pageSize keys
ListLimitPageOf(all, page, pageSize) ==
    PageKeys(ScanKeys(all, Min(ClampPage(page) * pageSize, ScanCeiling)),
             ClampPage(page), pageSize)

\* the keys of the page for the handler that scans 1000 keys
ListPageKeys(kv, page, pageSize) ==
    ListPageOf(SortKeys(DataKeys(kv)), page, pageSize)

\* the keys of the page for the handler that scans page * pageSize keys
ListLimitPageKeys(kv, page, pageSize) ==
    ListLimitPageOf(SortKeys(DataKeys(kv)), page, pageSize)

\* the item of the light projection
LightItem(item) ==
    [ id |-> item.id, title |-> item.title, category |-> item.tags[1],
      url |-> item.url,
      urls |-> FieldOr(item, "urls", [f \in {"small", "medium", "large"} |-> item.url]),
      width |-> item.width, height |-> item.height, rating |-> item.rating,
      exif |-> Spread([location |-> ""],
                 [f \in DOMAIN item.exif \cap
                    {"camera", "lens", "aperture", "shutterSpeed", "iso", "focalLength",
                     "location", "latitude", "longitude", "date"} |-> item.exif[f]]) ]

\* the item of the full projection
FullItem(item) ==
    [ id |-> item.id, title |-> item.title, description |-> item.description,
      category |-> item.tags[1], url |-> item.url,
      width |-> item.width, height |-> item.height, rating |-> item.rating,
      exif |-> item.exif ]

\* the requests of the two listing handlers
ListRequests(op) ==
    { [op |-> op, page |-> p, pageSize |-> s] : p \in 0..MaxPage, s \in 1..MaxPageSize }

ListPhotos(r) ==
    LET keys == ListPageKeys(PHOTO_KV, r.page, r.pageSize)
    IN  /\ Served
        /\ req' = r
        /\ resp' = [Response("list", 200, NoId) EXCEPT
                       !.items = [i \in 1..Len(keys) |-> LightItem(PHOTO_KV[keys[i]])]]
        /\ UNCHANGED <<PHOTO_KV, PHOTO_BUCKET, usedIds>>

ListPhotosLimit(r) ==
    LET keys == ListLimitPageKeys(PHOTO_KV, r.page, r.pageSize)
    IN  /\ Served
        /\ req' = r
        /\ resp' = [Response("list_limit", 200, NoId) EXCEPT
                       !.items = [i \in 1..Len(keys) |-> FullItem(PHOTO_KV[keys[i]])]]
        /\ UNCHANGED <<PHOTO_KV, PHOTO_BUCKET, usedIds>>

\* ------------------------------------------------------------------------
\* POST /api/categories and POST /api/presets
\* ------------------------------------------------------------------------

\* 'system:categories' and 'system:presets'
systemKey(name) == [fam |-> "system:" \o name, ts |-> <<>>, id |-> NoId]

\* the requests of the two handlers: valid says whether the body has the
\* arrays the handler asks for
SettingsRequests(op) ==
    { [op |-> op, authorized |-> FALSE, valid |-> TRUE],
      [op |-> op, authorized |-> TRUE, valid |-> FALSE],
      [op |-> op, authorized |-> TRUE, valid |-> TRUE] }

\* the body of a valid request of each handler
SettingsBody(op) ==
    IF op = "categories" THEN <<"landscape", "street">>
    ELSE [cameras |-> <<"Z6">>, lenses |-> <<"50mm">>]

\* a handler that does not look at the Authorization header
SaveSettingsOpen(r) ==
    /\ Served
    /\ IF ~r.valid
       THEN Answer(r, Response(r.op, 400, NoId))
       ELSE /\ PHOTO_KV' = Put(PHOTO_KV, systemKey(r.op), SettingsBody(r.op))
            /\ UNCHANGED <<PHOTO_BUCKET, usedIds>>
            /\ req' = r
            /\ resp' = Response(r.op, 200, NoId)

SaveSettings(r) ==
    /\ Served
    /\ IF ~r.authorized
       THEN Answer(r, Response(r.op, 401, NoId))
       ELSE IF ~r.valid
       THEN Answer(r, Response(r.op, 400, NoId))
       ELSE /\ PHOTO_KV' = Put(PHOTO_KV, systemKey(r.op), SettingsBody(r.op))
            /\ UNCHANGED <<PHOTO_BUCKET, usedIds>>
            /\ req' = r
            /\ resp' = Response(r.op, 200, NoId)

\* POST /api/categories
SaveCategories(r) == r.op = "categories" /\ SaveSettings(r)

\* POST /api/presets
SavePresets(r) == r.op = "presets" /\ SaveSettings(r)

\* ------------------------------------------------------------------------
\* The system
\* ------------------------------------------------------------------------

\* the id of a request: the id it names, or a fresh random one
PhotoIds(metaId) == IF metaId = NoId THEN FreshIds ELSE {metaId}

Next ==
    \/ Tick
    \/ \E r \in CreateRequests, photoId \in FreshIds : UploadCreate(r, photoId)
    \/ \E r \in EditRequests : \E photoId \in PhotoIds(r.id) : UploadWithEdit(r, photoId)
    \/ \E r \in VariantRequests : \E photoId \in PhotoIds(r.id) : UploadWithVariants(r, photoId)
    \/ \E r \in DeleteRequests : onRequestDelete(r)
    \/ \E r \in BatchRequests : BatchUpdate(r)
    \/ \E r \in ListRequests("list") : ListPhotos(r)
    \/ \E r \in ListRequests("list_limit") : ListPhotosLimit(r)
    \/ \E r \in SettingsRequests("categories") : SaveCategories(r)
    \/ \E r \in SettingsRequests("presets") : SavePresets(r)

Spec == Init /\ [][Next]_vars

\* ------------------------------------------------------------------------
\* The key of a record as a function of its creation time
\* ------------------------------------------------------------------------

\* values of Date.now() in 0..9999999999999: the least and the greatest,
\* and those around the powers of ten of the timestamp and of its inversion
Timestamps ==
    {Number(first, fill, last) : first \in {0, 1, 8, 9}, fill \in {0, 9}, last \in {0, 9}}

\* two uploads, at the times t1 and t2
KeyInit ==
    /\ PHOTO_KV = EmptyObject
    /\ PHOTO_BUCKET = EmptyObject
    /\ clock = 1
    /\ usedIds = {}
    /\ ops = 0
    /\ req \in {[op |-> "key", t1 |-> a, t2 |-> b, id1 |-> i, id2 |-> j] :
                  a \in Timestamps, b \in Timestamps, i \in Ids, j \in Ids}
    /\ resp = Response("none", 0, NoId)
    /\ tasks = [p \in Procs |-> IdleTask]
    /\ photos = <<>>

\* the data keys of the two uploads are written, and the keys are scanned
MakeKeys ==
    LET k1 == dataKey(invertedTs(req.t1), req.id1)
        k2 == dataKey(invertedTs(req.t2), req.id2)
        kv == Put(Put(PHOTO_KV, k1, [id |-> req.id1]), k2, [id |-> req.id2])
    IN  /\ ops = 0
        /\ ops' = 1
        /\ PHOTO_KV' = kv
        /\ resp' = [op |-> "key", k1 |-> k1, k2 |-> k2, keys |-> ListKeys(kv, ScanCeiling)]
        /\ UNCHANGED <<PHOTO_BUCKET, clock, usedIds, req, tasks, photos>>

KeyNext == MakeKeys

KeySpec == KeyInit /\ [][KeyNext]_vars

\* ------------------------------------------------------------------------
\* The page selection of the two listing handlers as a function of the
\* number of stored data keys, around the scan ceiling.  The i-th data key
\* of the store in key order is the number i.
\* ------------------------------------------------------------------------

StoredKeys(n) == [i \in 1..n |-> i]

\* the numbers of stored data keys
ScanStores == 0..MaxBeyond \cup (ScanCeiling - MaxBeyond)..(ScanCeiling + MaxBeyond)

\* the page sizes
ScanSizes ==
    1..(MaxBeyond + 1)
    \cup {ScanCeiling \div 3, ScanCeiling \div 2, ScanCeiling - 1, ScanCeiling, ScanCeiling + 1}

\* the pages asked with the page size s: the first ones and those around
\* the scan ceiling
ScanPages(s) ==
    0..MaxBeyond
    \cup {p \in (ScanCeiling \div s - 1)..(ScanCeiling \div s + MaxBeyond) : p >= 0}

ScanRequests ==
    UNION { { [op |-> "scan", stored |-> n, page |-> p, pageSize |-> s] :
                n \in ScanStores, p \in ScanPages(s) } : s \in ScanSizes }

ScanInit ==
    /\ PHOTO_KV = EmptyObject
    /\ PHOTO_BUCKET = EmptyObject
    /\ clock = 1
    /\ usedIds = {}
    /\ ops = 0
    /\ req \in ScanRequests
    /\ resp = Response("none", 0, NoId)
    /\ tasks = [p \in Procs |-> IdleTask]
    /\ photos = <<>>

\* the handler that scans 1000 keys selects the keys of the page
ScanList ==
    /\ resp' = [op |-> "list", status |-> 200,
                keys |-> ListPageOf(StoredKeys(req.stored), req.page, req.pageSize)]
    /\ UNCHANGED <<PHOTO_KV, PHOTO_BUCKET, clock, usedIds, ops, req, tasks, photos>>

\* the handler that scans page * pageSize keys selects the keys of the page
ScanListLimit ==
    /\ resp' = [op |-> "list_limit", status |-> 200,
                keys |-> ListLimitPageOf(StoredKeys(req.stored), req.page, req.pageSize)]
    /\ UNCHANGED <<PHOTO_KV, PHOTO_BUCKET, clock, usedIds, ops, req, tasks, photos>>

ScanNext == ScanList \/ ScanListLimit

ScanSpec == ScanInit /\ [][ScanNext]_vars

\* ------------------------------------------------------------------------
\* The handlers call by call: every await of a KV or bucket call is a point
\* where another request can run.  A task is a request in flight; its pc
\* names the call it makes next.
\* ------------------------------------------------------------------------

\* what a get returns for a key that is absent
Null == [null |-> TRUE]

\* env.PHOTO_KV.get(key)
Get(store, key) == IF Has(store, key) THEN store[key] ELSE Null

\* the id the requests in flight contend for
SharedIds == {1}

\* the requests that reach a store call: authorized, with a meta and, for a
\* new upload of the single-file handlers, a file.  An edit, a delete or a
\* batch update names a shared id; a batch is one chain of calls per id,
\* and the task is the chain of one id.
StepRequests ==
    { [op |-> "create", id |-> NoId, meta |-> AnyMeta, file |-> PngFile],
      [op |-> "upload_edit", id |-> NoId, meta |-> AnyMeta, file |-> JpegFile],
      [op |-> "upload", id |-> NoId, meta |-> AnyMeta,
       form |-> CHOOSE f \in Forms : AnyVariant(f)] }
    \cup { [op |-> "upload_edit", id |-> i, meta |-> m, file |-> f] :
             i \in SharedIds, m \in Metas, f \in {NoFile, JpegFile} }
    \cup { [op |-> "upload", id |-> i, meta |-> m, form |-> f] :
             i \in SharedIds, m \in Metas, f \in {x \in Forms : x.legacy = NoFile} }
    \cup { [op |-> "delete", id |-> i] : i \in SharedIds }
    \cup { [op |-> "batch_update", id |-> i, updates |-> SomeUpdates] : i \in SharedIds }

\* the first call of a request
FirstCall(r) ==
    IF r.op = "create" THEN "bucket_put"
    ELSE IF r.op = "upload_edit"
    THEN (IF r.file # NoFile /\ r.file.size > 0 THEN "bucket_put" ELSE "get_lookup")
    ELSE IF r.op = "upload"
    THEN (IF r.id # NoId THEN "get_lookup"
          ELSE IF UploadedFields(r.form) # {} THEN "bucket_put"
          ELSE "put_lookup")
    ELSE "get_lookup"

\* the task of a request r for the id photoId that arrives at the time now;
\* key is the data key the task has read from or chosen for the lookup key,
\* data the record it has read, created its created_at property, and
\* missing says that the key a lookup key named held no record
NewTask(r, photoId, now) ==
    [ pc |-> FirstCall(r), op |-> r.op, r |-> r, id |-> photoId, now |-> now,
      key |-> dataKey(invertedTs(Instant(now)), photoId),
      data |-> Null,
      created |-> IF r.id # NoId THEN EmptyObject ELSE [created_at |-> now],
      missing |-> FALSE, fault |-> FALSE, status |-> 0, success |-> FALSE ]

\* the task goes on to the call pc
At(t, pc) == [t EXCEPT !.pc = pc]

\* the task returns its response, and its local variables are gone
Return(t, status) ==
    [t EXCEPT !.pc = "done", !.status = status, !.success = (status = 200),
              !.data = Null, !.created = EmptyObject]

\* the outcome of a call: the task after it and the two stores
Out(t, kv, bucket) == [task |-> t, kv |-> kv, bucket |-> bucket]

\* the slot p holds a request in flight
Running(p) == tasks[p].pc \notin {"idle", "done"}

\* the id a request names is not the random id of an upload that has not
\* returned it yet
Known(metaId) ==
    \A q \in Procs : (Running(q) /\ tasks[q].r.id = NoId) => tasks[q].id # metaId

\* a request arrives at the time now and takes the lowest free slot (the
\* clock is read by arriving requests only)
Start(p, r, photoId, now) ==
    /\ ops < MaxOps
    /\ ~Running(p)
    /\ \A q \in Procs : q < p => Running(q)
    /\ Known(r.id)
    /\ ops' = ops + 1
    /\ clock' = now
    /\ tasks' = [tasks EXCEPT ![p] = NewTask(r, photoId, now)]
    /\ usedIds' = usedIds \cup {photoId}
    /\ UNCHANGED <<PHOTO_KV, PHOTO_BUCKET, req, resp, photos>>

\* the task of slot p makes its next call, with the outcome out
Call(p, out) ==
    /\ tasks' = [tasks EXCEPT ![p] = out.task]
    /\ PHOTO_KV' = out.kv
    /\ PHOTO_BUCKET' = out.bucket
    /\ UNCHANGED <<clock, usedIds, ops, req, resp, photos>>

\* the create-only handler: the object, the data key, then the lookup key
CreateCalls(t, kv, bucket) ==
    IF t.pc = "bucket_put"
    THEN Out(At(t, "put_data"), kv, Put(bucket, photoObjectKey(t.id, ""), t.r.file.type))
    ELSE IF t.pc = "put_data"
    THEN Out(At(t, "put_lookup"),
             Put(kv, t.key, CreatePhotoData(t.id, t.r.meta, t.r.file, t.now)), bucket)
    ELSE Out(Return(t, 200), Put(kv, lookupKey(t.id), t.key), bucket)

\* the record the single-file handler writes from what the task has read
EditTaskData(t) ==
    EditPhotoData(t.id, t.r.meta, t.now,
                  EditFileInfo(t.r.file # NoFile /\ t.r.file.size > 0, t.r.file, t.id, t.data),
                  t.created)

\* the handler that creates or edits with a single file
EditCalls(t, kv, bucket) ==
    LET isEdit == t.r.id # NoId
        lookup == lookupKey(t.id)
    IN  IF t.pc = "bucket_put"
        THEN Out(At(t, IF isEdit THEN "get_lookup_again" ELSE "put_lookup"),
                 kv, Put(bucket, photoObjectKey(t.id, ""), t.r.file.type))
        ELSE IF t.pc = "get_lookup"
        THEN (IF Has(kv, lookup)
              THEN Out([At(t, "get_data") EXCEPT !.key = kv[lookup]], kv, bucket)
              ELSE Out(Return(t, 404), kv, bucket))
        ELSE IF t.pc = "get_data"
        THEN (IF Has(kv, t.key)
              THEN Out([At(t, "get_lookup_again") EXCEPT !.data = kv[t.key]], kv, bucket)
              ELSE Out([Return(t, 500) EXCEPT !.missing = TRUE], kv, bucket))
        ELSE IF t.pc = "get_lookup_again"
        THEN (IF Has(kv, lookup)
              THEN Out([At(t, "get_created_at") EXCEPT !.key = kv[lookup]], kv, bucket)
              ELSE Out([At(t, "put_lookup") EXCEPT
                           !.key = dataKey(invertedTs(Instant(t.now)), t.id)], kv, bucket))
        ELSE IF t.pc = "get_created_at"
        THEN (IF Has(kv, t.key)
              THEN Out([At(t, "put_data") EXCEPT
                           !.created = EditCreatedAt(isEdit, TRUE, kv, t.key, t.now)], kv, bucket)
              ELSE Out([Return(t, 500) EXCEPT !.missing = TRUE], kv, bucket))
        ELSE IF t.pc = "put_lookup"
        THEN Out(At(t, "put_data"), Put(kv, lookup, t.key), bucket)
        ELSE Out(Return(t, 200), Put(kv, t.key, EditTaskData(t)), bucket)

\* a record that keeps the stored rating
VariantTaskDataKeepsRating(t) ==
    LET existingData == IF t.data = Null THEN EmptyObject ELSE t.data
        info == VariantFileInfo(t.r.form, t.id, existingData)
    IN  Spread(VariantPhotoData(t.id, t.r.meta, t.now, info,
                                VariantUrls(FieldOr(existingData, "urls", EmptyObject),
                                            info.url, t.id, t.r.form),
                                VariantCreatedAt(t.data # Null, existingData, t.now)),
               [rating |-> FieldOr(existingData, "rating", 0)])

\* the record the handler with size variants writes from what the task has
\* read
VariantTaskData(t) ==
    LET existingData == IF t.data = Null THEN EmptyObject ELSE t.data
        info == VariantFileInfo(t.r.form, t.id, existingData)
    IN  VariantPhotoData(t.id, t.r.meta, t.now, info,
                         VariantUrls(FieldOr(existingData, "urls", EmptyObject),
                                     info.url, t.id, t.r.form),
                         VariantCreatedAt(t.data # Null, existingData, t.now))

\* the call after the reads of the stored record: the uploads when the form
\* has a file, else the choice of the key
AfterExisting(t) ==
    IF UploadedFields(t.r.form) # {} THEN "bucket_put"
    ELSE IF t.r.id # NoId THEN "get_lookup_again"
    ELSE "put_lookup"

\* the handler that creates or edits with size variants (its uploads are
\* one call)
VariantCalls(t, kv, bucket) ==
    LET isEdit == t.r.id # NoId
        lookup == lookupKey(t.id)
    IN  IF t.pc = "get_lookup"
        THEN (IF Has(kv, lookup)
              THEN Out([At(t, "get_data") EXCEPT !.key = kv[lookup]], kv, bucket)
              ELSE Out(At(t, AfterExisting(t)), kv, bucket))
        ELSE IF t.pc = "get_data"
        THEN Out([At(t, AfterExisting(t)) EXCEPT
                     !.data = Get(kv, t.key), !.missing = ~Has(kv, t.key)], kv, bucket)
        ELSE IF t.pc = "bucket_put"
        THEN Out(At(t, IF isEdit THEN "get_lookup_again" ELSE "put_lookup"),
                 kv, UploadVariants(bucket, t.id, t.r.form))
        ELSE IF t.pc = "get_lookup_again"
        THEN (IF Has(kv, lookup)
              THEN Out([At(t, "put_data") EXCEPT !.key = kv[lookup]], kv, bucket)
              ELSE Out([At(t, "put_lookup") EXCEPT
                           !.key = dataKey(invertedTs(Instant(t.now)), t.id)], kv, bucket))
        ELSE IF t.pc = "put_lookup"
        THEN Out(At(t, "put_data"), Put(kv, lookup, t.key), bucket)
        ELSE Out(Return(t, 200), Put(kv, t.key, VariantTaskData(t)), bucket)

\* the delete handler: lookup read, record read, object, lookup key, data key
DeleteCalls(t, kv, bucket) ==
    LET lookup == lookupKey(t.id)
    IN  IF t.pc = "get_lookup"
        THEN (IF Has(kv, lookup)
              THEN Out([At(t, "get_data") EXCEPT !.key = kv[lookup]], kv, bucket)
              ELSE Out(Return(t, 404), kv, bucket))
        ELSE IF t.pc = "get_data"
        THEN Out([At(t, IF Has(kv, t.key) /\ kv[t.key].object_key # EmptyString
                        THEN "bucket_delete" ELSE "delete_lookup")
                    EXCEPT !.data = Get(kv, t.key), !.missing = ~Has(kv, t.key)], kv, bucket)
        ELSE IF t.pc = "bucket_delete"
        THEN Out(At(t, "delete_lookup"), kv, Delete(bucket, t.data.object_key))
        ELSE IF t.pc = "delete_lookup"
        THEN Out(At(t, "delete_data"), Delete(kv, lookup), bucket)
        ELSE Out(Return(t, 200), Delete(kv, t.key), bucket)

\* the chain of one id of a batch update: the status is that of the result
\* of the id, 404 for the errors 'Not found' and 'Data missing'
BatchCalls(t, kv, bucket) ==
    LET lookup == lookupKey(t.id)
    IN  IF t.pc = "get_lookup"
        THEN (IF Has(kv, lookup)
              THEN Out([At(t, "get_data") EXCEPT !.key = kv[lookup]], kv, bucket)
              ELSE Out(Return(t, 404), kv, bucket))
        ELSE IF t.pc = "get_data"
        THEN (IF Has(kv, t.key)
              THEN Out([At(t, "put_data") EXCEPT !.data = kv[t.key]], kv, bucket)
              ELSE Out([Return(t, 404) EXCEPT !.missing = TRUE], kv, bucket))
        ELSE Out(Return(t, 200), Put(kv, t.key, MergeUpdates(t.data, t.r.updates)), bucket)

CreateCall(p) ==
    /\ Running(p) /\ tasks[p].op = "create"
    /\ Call(p, CreateCalls(tasks[p], PHOTO_KV, PHOTO_BUCKET))

EditCall(p) ==
    /\ Running(p) /\ tasks[p].op = "upload_edit"
    /\ Call(p, EditCalls(tasks[p], PHOTO_KV, PHOTO_BUCKET))

VariantCall(p) ==
    /\ Running(p) /\ tasks[p].op = "upload"
    /\ Call(p, VariantCalls(tasks[p], PHOTO_KV, PHOTO_BUCKET))

DeleteCall(p) ==
    /\ Running(p) /\ tasks[p].op = "delete"
    /\ Call(p, DeleteCalls(tasks[p], PHOTO_KV, PHOTO_BUCKET))

BatchCall(p) ==
    /\ Running(p) /\ tasks[p].op = "batch_update"
    /\ Call(p, BatchCalls(tasks[p], PHOTO_KV, PHOTO_BUCKET))

\* PHOTO_BUCKET.delete of the delete handler throws: the catch of the handler
\* answers 500 and the two KV deletes are not reached
DeleteObjectFails(p) ==
    /\ Running(p) /\ tasks[p].op = "delete" /\ tasks[p].pc = "bucket_delete"
    /\ tasks' = [tasks EXCEPT ![p] = [Return(tasks[p], 500) EXCEPT !.fault = TRUE]]
    /\ UNCHANGED <<PHOTO_KV, PHOTO_BUCKET, clock, usedIds, ops, req, resp, photos>>

StepNext ==
    \/ \E p \in Procs, r \in StepRequests, now \in clock..MaxClock :
          \E photoId \in PhotoIds(r.id) : Start(p, r, photoId, now)
    \/ \E p \in Procs : CreateCall(p)
    \/ \E p \in Procs : EditCall(p)
    \/ \E p \in Procs : VariantCall(p)
    \/ \E p \in Procs : DeleteCall(p)
    \/ \E p \in Procs : BatchCall(p)
    \/ \E p \in Procs : DeleteObjectFails(p)

StepSpec == Init /\ [][StepNext]_vars

\* ------------------------------------------------------------------------
\* Uploads and edits of stored photos call by call, with no delete: an edit
\* arrives for an id whose lookup key and record are stored.
\* ------------------------------------------------------------------------

\* the id has its lookup key and the record the lookup key names
Stored(kv, photoId) ==
    Has(kv, lookupKey(photoId)) /\ Has(kv, kv[lookupKey(photoId)])

EditStart(p, r, photoId, now) ==
    /\ r.op \in {"create", "upload_edit", "upload"}
    /\ r.id # NoId => Stored(PHOTO_KV, r.id)
    /\ Start(p, r, photoId, now)

EditNext ==
    \/ \E p \in Procs, r \in StepRequests, now \in clock..MaxClock :
          \E photoId \in PhotoIds(r.id) : EditStart(p, r, photoId, now)
    \/ \E p \in Procs : CreateCall(p)
    \/ \E p \in Procs : EditCall(p)
    \/ \E p \in Procs : VariantCall(p)

EditSpec == Init /\ [][EditNext]_vars

\* ------------------------------------------------------------------------
\* A listing call by call: the key scan, then one get per key of the page
\* (each in its own try/catch), then the response.  Uploads and deletes run
\* between the calls.
\* ------------------------------------------------------------------------

\* the task of a listing request: keys are the keys of the page, got what
\* the get of each key so far has yielded (Null for a key without value and
\* for a get that threw)
NewListTask(r) ==
    [ pc |-> "list_keys", op |-> r.op, r |-> r, keys |-> <<>>, got |-> <<>>,
      items |-> <<>>, status |-> 0 ]

\* a listing request arrives and takes the lowest free slot
ListStart(p, r) ==
    /\ ops < MaxOps
    /\ ~Running(p)
    /\ \A q \in Procs : q < p => Running(q)
    /\ ops' = ops + 1
    /\ tasks' = [tasks EXCEPT ![p] = NewListTask(r)]
    /\ UNCHANGED <<PHOTO_KV, PHOTO_BUCKET, clock, usedIds, req, resp, photos>>

\* the items of the response: the values that are not null, projected
RECURSIVE MappedItems(_, _)
MappedItems(op, got) ==
    IF got = <<>> THEN <<>>
    ELSE IF Head(got) = Null THEN MappedItems(op, Tail(got))
    ELSE <<IF op = "list" THEN LightItem(Head(got)) ELSE FullItem(Head(got))>>
           \o MappedItems(op, Tail(got))

\* the listing answers with the items of what it has got
ListReturn(t) ==
    [t EXCEPT !.pc = "done", !.status = 200, !.items = MappedItems(t.op, t.got)]

\* the task after the get of its next key has yielded value
ListGot(t, value) ==
    LET u == [t EXCEPT !.got = Append(t.got, value)]
    IN  IF Len(u.got) = Len(u.keys) THEN ListReturn(u) ELSE u

\* the key scan and the slice of the page; a page without keys is answered
\* at once
ListScan(p) ==
    /\ Running(p) /\ tasks[p].pc = "list_keys"
    /\ LET keys == IF tasks[p].op = "list"
                   THEN ListPageKeys(PHOTO_KV, tasks[p].r.page, tasks[p].r.pageSize)
                   ELSE ListLimitPageKeys(PHOTO_KV, tasks[p].r.page, tasks[p].r.pageSize)
           t == [tasks[p] EXCEPT !.keys = keys, !.pc = "get_item"]
       IN  tasks' = [tasks EXCEPT ![p] = IF keys = <<>> THEN ListReturn(t) ELSE t]
    /\ UNCHANGED <<PHOTO_KV, PHOTO_BUCKET, clock, usedIds, ops, req, resp, photos>>

\* a listing that answers 500 when a get throws
ListFetchAborts(p) ==
    /\ Running(p) /\ tasks[p].pc = "get_item"
    /\ tasks' = [tasks EXCEPT ![p] = [tasks[p] EXCEPT !.pc = "done", !.status = 500]]
    /\ UNCHANGED <<PHOTO_KV, PHOTO_BUCKET, clock, usedIds, ops, req, resp, photos>>

\* the get of the next key of the page yields its value, or null when the
\* key has no value any more
ListFetch(p) ==
    /\ Running(p) /\ tasks[p].pc = "get_item"
    /\ tasks' = [tasks EXCEPT ![p] =
                    ListGot(tasks[p], Get(PHOTO_KV, tasks[p].keys[Len(tasks[p].got) + 1]))]
    /\ UNCHANGED <<PHOTO_KV, PHOTO_BUCKET, clock, usedIds, ops, req, resp, photos>>

\* the get of the next key of the page throws (the store fails, or the
\* value is not JSON): the catch yields null
ListFetchFails(p) ==
    /\ Running(p) /\ tasks[p].pc = "get_item"
    /\ tasks' = [tasks EXCEPT ![p] = ListGot(tasks[p], Null)]
    /\ UNCHANGED <<PHOTO_KV, PHOTO_BUCKET, clock, usedIds, ops, req, resp, photos>>

ListNext ==
    \/ Tick
    \/ \E r \in CreateRequests, photoId \in FreshIds : UploadCreate(r, photoId)
    \/ \E r \in DeleteRequests : onRequestDelete(r)
    \/ \E p \in Procs, r \in ListRequests("list") \cup ListRequests("list_limit") : ListStart(p, r)
    \/ \E p \in Procs : ListScan(p)
    \/ \E p \in Procs : ListFetch(p)
    \/ \E p \in Procs : ListFetchFails(p)

ListSpec == Init /\ [][ListNext]_vars

\* ------------------------------------------------------------------------
\* The photo list of the front end: page fetches and deletes are requests
\* in flight that return in any order, each state update is one step.
\* ------------------------------------------------------------------------

\* the photos a page of the server or the upload form can hold
PhotoItems == { [id |-> i, title |-> t, rating |-> 0] : i \in Ids, t \in {"Dawn", "Dusk"} }

\* the pages the server answers: no id twice
ServerPages ==
    { s \in UNION { [1..n -> PhotoItems] : n \in 0..MaxIds } :
        \A i, j \in DOMAIN s : i # j => s[i].id # s[j].id }

\* prev.map(p => p.id)
IdsOf(list) == { list[i].id : i \in DOMAIN list }

\* a page appended as it came
UniqueNewAll(prev, newPhotos) == newPhotos

\* newPhotos.filter(p => !existingIds.has(p.id))
UniqueNew(prev, newPhotos) ==
    SelectSeq(newPhotos, LAMBDA photo : photo.id \notin IdsOf(prev))

\* the update of setPhotos in fetchPhotos
FetchedPhotos(prev, newPhotos, isReset) ==
    IF isReset THEN newPhotos ELSE prev \o UniqueNew(prev, newPhotos)

\* the update of setPhotos in handleUpdatePhoto: replace at findIndex, or
\* put in front
UpdatedPhotos(prev, newPhoto) ==
    IF newPhoto.id \in IdsOf(prev)
    THEN LET index == CHOOSE i \in DOMAIN prev :
                         /\ prev[i].id = newPhoto.id
                         /\ \A j \in 1..(i - 1) : prev[j].id # newPhoto.id
         IN  [prev EXCEPT ![index] = newPhoto]
    ELSE <<newPhoto>> \o prev

\* prev.map(p => p.id === photo.id ? updatedPhoto : p)
RatedPhotos(prev, photo, updatedPhoto) ==
    [i \in DOMAIN prev |-> IF prev[i].id = photo.id THEN updatedPhoto ELSE prev[i]]

\* prev.filter(p => p.id !== photoId)
DeletedPhotos(prev, photoId) ==
    SelectSeq(prev, LAMBDA photo : photo.id # photoId)

\* a request of the front end in flight
FrontTask(op, isReset, photoId) ==
    [ pc |-> "await", op |-> op, isReset |-> isReset, id |-> photoId, items |-> <<>> ]

\* a request of the front end leaves and takes the lowest free slot
FrontStart(p, t) ==
    /\ ops < MaxOps
    /\ ~Running(p)
    /\ \A q \in Procs : q < p => Running(q)
    /\ ops' = ops + 1
    /\ tasks' = [tasks EXCEPT ![p] = t]
    /\ UNCHANGED <<PHOTO_KV, PHOTO_BUCKET, clock, usedIds, req, resp, photos>>

\* a request of the front end has returned, and the list is now list
FrontReturn(p, items, list) ==
    /\ tasks' = [tasks EXCEPT ![p] = [tasks[p] EXCEPT !.pc = "done", !.items = items]]
    /\ photos' = list
    /\ UNCHANGED <<PHOTO_KV, PHOTO_BUCKET, clock, usedIds, ops, req, resp>>

\* fetchPhotos(pageNum, isReset) up to its await
fetchPhotos(p, isReset) == FrontStart(p, FrontTask("fetch", isReset, NoId))

\* client.getPhotos returns the page newPhotos
getPhotosReturns(p, newPhotos) ==
    /\ Running(p) /\ tasks[p].op = "fetch"
    /\ FrontReturn(p, newPhotos, FetchedPhotos(photos, newPhotos, tasks[p].isReset))

\* client.getPhotos throws: the catch logs
getPhotosFails(p) ==
    /\ Running(p) /\ tasks[p].op = "fetch"
    /\ FrontReturn(p, <<>>, photos)

handleUpdatePhoto(newPhoto) ==
    /\ ops < MaxOps
    /\ ops' = ops + 1
    /\ photos' = UpdatedPhotos(photos, newPhoto)
    /\ UNCHANGED <<PHOTO_KV, PHOTO_BUCKET, clock, usedIds, req, resp, tasks>>

\* the optimistic update of handleRatingChange
handleRatingChange(photo, newRating) ==
    /\ ops < MaxOps
    /\ ops' = ops + 1
    /\ photos' = RatedPhotos(photos, photo, [photo EXCEPT !.rating = newRating])
    /\ UNCHANGED <<PHOTO_KV, PHOTO_BUCKET, clock, usedIds, req, resp, tasks>>

\* handleDeletePhoto(e, photoId) up to its await
handleDeletePhoto(p, photoId) == FrontStart(p, FrontTask("delete_photo", FALSE, photoId))

\* client.deletePhoto returns
deletePhotoReturns(p) ==
    /\ Running(p) /\ tasks[p].op = "delete_photo"
    /\ FrontReturn(p, <<>>, DeletedPhotos(photos, tasks[p].id))

\* client.deletePhoto throws: the list is not set
deletePhotoFails(p) ==
    /\ Running(p) /\ tasks[p].op = "delete_photo"
    /\ FrontReturn(p, <<>>, photos)

FrontNext ==
    \/ \E p \in Procs, isReset \in BOOLEAN : fetchPhotos(p, isReset)
    \/ \E p \in Procs, newPhotos \in ServerPages : getPhotosReturns(p, newPhotos)
    \/ \E p \in Procs : getPhotosFails(p)
    \/ \E newPhoto \in PhotoItems : handleUpdatePhoto(newPhoto)
    \/ \E i \in DOMAIN photos, newRating \in {1, 5} : handleRatingChange(photos[i], newRating)
    \/ \E p \in Procs, photoId \in Ids : handleDeletePhoto(p, photoId)
    \/ \E p \in Procs : deletePhotoReturns(p)
    \/ \E p \in Procs : deletePhotoFails(p)

FrontSpec == Init /\ [][FrontNext]_vars

\* ------------------------------------------------------------------------
\* Properties
\* ------------------------------------------------------------------------

\* the handlers that edit: both take the id of the record in meta.id
EditOps == {"upload_edit", "upload"}

\* this step serves an edit request for id whose lookup key is present
EditOfExisting(id) ==
    /\ ops' = ops + 1
    /\ req'.op \in EditOps
    /\ req'.authorized /\ req'.hasMeta
    /\ req'.id = id
    /\ Has(PHOTO_KV, lookupKey(id))

\* the latest request was a successful edit of a record written earlier
EditedEarlierRecord ==
    /\ resp.op \in EditOps /\ resp.status = 200 /\ req.id # NoId
    /\ Has(PHOTO_KV, lookupKey(req.id))
    /\ "created_at" \in DOMAIN PHOTO_KV[PHOTO_KV[lookupKey(req.id)]]
    /\ PHOTO_KV[PHOTO_KV[lookupKey(req.id)]].created_at
         < PHOTO_KV[PHOTO_KV[lookupKey(req.id)]].updated_at

\* C1: between requests, every id has either its lookup key and exactly one
\* data key, the one the lookup key holds, or no key of either family.
IndexInvariant ==
    \A id \in Ids :
        \/ /\ Has(PHOTO_KV, lookupKey(id))
           /\ Cardinality(DataKeysOf(PHOTO_KV, id)) = 1
           /\ PHOTO_KV[lookupKey(id)] \in DataKeysOf(PHOTO_KV, id)
        \/ /\ ~Has(PHOTO_KV, lookupKey(id))
           /\ DataKeysOf(PHOTO_KV, id) = {}

\* a delete has removed one id while another id is still stored
WitnessIndexInvariant ==
    /\ resp.op = "delete" /\ resp.status = 200
    /\ \E id \in Ids : id # resp.id /\ Has(PHOTO_KV, lookupKey(id))

\* C2: an edit of an id whose lookup key is present leaves the set of data
\* keys, the value of the lookup key and the order of the full listing as
\* they were, and when it succeeds the record under that key is the new one.
EditKeepsKey ==
    [][\A id \in Ids : EditOfExisting(id) =>
          /\ DataKeys(PHOTO_KV') = DataKeys(PHOTO_KV)
          /\ Has(PHOTO_KV', lookupKey(id))
          /\ PHOTO_KV'[lookupKey(id)] = PHOTO_KV[lookupKey(id)]
          /\ ListKeys(PHOTO_KV', ScanCeiling) = ListKeys(PHOTO_KV, ScanCeiling)
          /\ resp'.status = 200 =>
                /\ PHOTO_KV'[PHOTO_KV[lookupKey(id)]].title = req'.meta.title
                /\ PHOTO_KV'[PHOTO_KV[lookupKey(id)]].updated_at = clock]_vars

\* an edit has rewritten the record of an id while two records are stored
WitnessEditKeepsKey ==
    /\ EditedEarlierRecord
    /\ Cardinality(DataKeys(PHOTO_KV)) = 2

\* C3: after a delete of an id has succeeded, the lookup key of the id is
\* absent, no data key ends in the id, and no page of a listing has a
\* record of the id.
DeleteRemoves ==
    (resp.op = "delete" /\ resp.status = 200) =>
        /\ ~Has(PHOTO_KV, lookupKey(resp.id))
        /\ DataKeysOf(PHOTO_KV, resp.id) = {}
        /\ \A p \in 1..MaxPage, s \in 1..MaxPageSize :
              /\ \A i \in DOMAIN ListPageKeys(PHOTO_KV, p, s) :
                    PHOTO_KV[ListPageKeys(PHOTO_KV, p, s)[i]].id # resp.id
              /\ \A i \in DOMAIN ListLimitPageKeys(PHOTO_KV, p, s) :
                    PHOTO_KV[ListLimitPageKeys(PHOTO_KV, p, s)[i]].id # resp.id

\* a delete has succeeded for an id that a record had been written for
WitnessDeleteRemoves ==
    /\ resp.op = "delete" /\ resp.status = 200
    /\ resp.id \in usedIds

\* C4: an edit request for an id whose lookup key is absent is answered 404
\* and writes nothing to the KV store or the bucket.
EditOfMissingFails ==
    [][\A id \in Ids :
          (/\ ops' = ops + 1
           /\ req'.op \in EditOps
           /\ req'.authorized /\ req'.hasMeta
           /\ req'.id = id
           /\ ~Has(PHOTO_KV, lookupKey(id)))
          => (resp'.status = 404 /\ PHOTO_KV' = PHOTO_KV /\ PHOTO_BUCKET' = PHOTO_BUCKET)]_vars

\* the keys of page p of size s, for the handler op
PageOf(op, kv, p, s) ==
    IF op = "list" THEN ListPageKeys(kv, p, s) ELSE ListLimitPageKeys(kv, p, s)

\* ceil(N / s) for the N data keys of kv
PageCount(kv, s) == (Cardinality(DataKeys(kv)) + s - 1) \div s

\* the keys of the pages p, p + 1, ..., PageCount(kv, s), one after the other
RECURSIVE PagesFrom(_, _, _, _)
PagesFrom(op, kv, s, p) ==
    IF p > PageCount(kv, s) THEN <<>>
    ELSE PageOf(op, kv, p, s) \o PagesFrom(op, kv, s, p + 1)

\* C5: with no more records than the scan ceiling, the pages 1..ceil(N/S) of
\* either listing handler, one after the other, hold every data key exactly
\* once, in ascending order of the key strings, for every page size S.
PaginationComplete ==
    Cardinality(DataKeys(PHOTO_KV)) <= ScanCeiling =>
        \A op \in {"list", "list_limit"}, s \in 1..(MaxPageSize + 1) :
            LET all == PagesFrom(op, PHOTO_KV, s, 1)
            IN  /\ Len(all) = Cardinality(DataKeys(PHOTO_KV))
                /\ {all[i] : i \in DOMAIN all} = DataKeys(PHOTO_KV)
                /\ \A i, j \in DOMAIN all :
                      i < j => StringLess(KeyString(all[i]), KeyString(all[j]))
                /\ \A i \in DOMAIN all : PHOTO_KV[all[i]].id = all[i].id

\* the second page of size one has been served from a store of two records
WitnessPaginationComplete ==
    /\ resp.op \in {"list", "list_limit"} /\ resp.status = 200
    /\ req.page = 2 /\ req.pageSize = 1
    /\ Len(resp.items) = 1
    /\ Cardinality(DataKeys(PHOTO_KV)) = 2

\* the time a data key was derived from: 9999999999999 - <ts>
TimeOf(k) == invertedTs(StringToNumber(k.ts))

\* C6: of two records, the one created at the later time comes first in the
\* full listing, in every state (so also after edits and batch updates).
NewestFirst ==
    \A k1, k2 \in DataKeys(PHOTO_KV) :
        NumberLess(TimeOf(k1), TimeOf(k2)) =>
            LET all == ListKeys(PHOTO_KV, ScanCeiling)
            IN  \E i, j \in DOMAIN all : i < j /\ all[i] = k2 /\ all[j] = k1

\* C7: a batch update with a non-empty ids array is answered 200 with one
\* result per element of ids, in order; the result of an id is a success
\* exactly when its lookup key and its record exist and the merge does not
\* throw; and the record of every id that succeeded holds the updates.
BatchIndependent ==
    [][(/\ ops' = ops + 1
        /\ req'.op = "batch_update"
        /\ req'.authorized
        /\ Len(req'.ids) > 0)
       => /\ resp'.status = 200
          /\ Len(resp'.results) = Len(req'.ids)
          /\ \A i \in DOMAIN req'.ids :
                LET id == req'.ids[i]
                    found == /\ Has(PHOTO_KV, lookupKey(id))
                             /\ Has(PHOTO_KV, PHOTO_KV[lookupKey(id)])
                IN  /\ resp'.results[i].id = id
                    /\ resp'.results[i].success = (found /\ req'.updates # NoUpdates)
                    /\ resp'.results[i].success =>
                          \A f \in DOMAIN req'.updates \cap BatchFields :
                              /\ f \in DOMAIN PHOTO_KV'[PHOTO_KV[lookupKey(id)]].exif
                              /\ PHOTO_KV'[PHOTO_KV[lookupKey(id)]].exif[f] = req'.updates[f]]_vars

\* a batch has failed for its first id and succeeded for its second
WitnessBatchIndependent ==
    /\ resp.op = "batch_update" /\ resp.status = 200
    /\ Len(resp.results) = 2
    /\ ~resp.results[1].success
    /\ resp.results[2].success
    /\ PHOTO_KV[PHOTO_KV[lookupKey(resp.results[2].id)]].exif.location = "Oslo"

ExifMerged ==
    [][\A id \in Ids : (EditOfExisting(id) /\ resp'.status = 200) =>
          \A f \in DOMAIN PHOTO_KV[PHOTO_KV[lookupKey(id)]].exif
                 \ DOMAIN FieldOr(req'.meta, "exif", EmptyObject) :
              /\ f \in DOMAIN PHOTO_KV'[PHOTO_KV[lookupKey(id)]].exif
              /\ PHOTO_KV'[PHOTO_KV[lookupKey(id)]].exif[f]
                   = PHOTO_KV[PHOTO_KV[lookupKey(id)]].exif[f]]_vars

\* C9, amended: after an edit of an id whose lookup key is present, the exif
\* of the record is the exif of the payload, and has no field when the
\* payload has no exif.
ExifReplaced ==
    [][\A id \in Ids : (EditOfExisting(id) /\ resp'.status = 200) =>
          IF "exif" \in DOMAIN req'.meta
          THEN PHOTO_KV'[PHOTO_KV[lookupKey(id)]].exif = req'.meta.exif
          ELSE DOMAIN PHOTO_KV'[PHOTO_KV[lookupKey(id)]].exif = {}]_vars

\* an edit whose payload carries an exif has rewritten an earlier record
WitnessExifReplaced ==
    /\ EditedEarlierRecord
    /\ "exif" \in DOMAIN req.meta
    /\ PHOTO_KV[PHOTO_KV[lookupKey(req.id)]].exif = req.meta.exif

\* the edit request of this step carries no file
WithoutFile ==
    IF req'.op = "upload_edit" THEN req'.file = NoFile
    ELSE UploadedFields(req'.form) = {}

\* C10: an edit without a file of an id whose lookup key is present leaves
\* object_key, url, mime and size_bytes of the record, and the bucket, as
\* they were.
BlobReferenceKept ==
    [][\A id \in Ids : (EditOfExisting(id) /\ resp'.status = 200 /\ WithoutFile) =>
          /\ \A f \in {"object_key", "url", "mime", "size_bytes"} :
                PHOTO_KV'[PHOTO_KV[lookupKey(id)]][f] = PHOTO_KV[PHOTO_KV[lookupKey(id)]][f]
          /\ PHOTO_BUCKET' = PHOTO_BUCKET]_vars

\* this step serves a batch update that reaches the per-id loop
BatchOfIds ==
    /\ ops' = ops + 1
    /\ req'.op = "batch_update"
    /\ req'.authorized
    /\ Len(req'.ids) > 0

\* the data keys the lookup keys of the ids of the batch lead to
BatchTargets(kv, ids) ==
    {kv[lookupKey(ids[i])] : i \in {j \in DOMAIN ids : Has(kv, lookupKey(ids[j]))}}

\* C11: a batch update leaves the set of keys and the bucket as they were;
\* under every key that is not the data key of a targeted id the value is
\* unchanged (so every lookup value and every record of another id); and in
\* the record of a targeted id every field but exif, and every exif field
\* that is not one of the six fields named in the update, is unchanged.
BatchFrame ==
    [][BatchOfIds =>
          /\ DOMAIN PHOTO_KV' = DOMAIN PHOTO_KV
          /\ PHOTO_BUCKET' = PHOTO_BUCKET
          /\ \A k \in DOMAIN PHOTO_KV :
                IF k \in BatchTargets(PHOTO_KV, req'.ids) /\ Has(PHOTO_KV, k)
                THEN /\ DOMAIN PHOTO_KV'[k] = DOMAIN PHOTO_KV[k]
                     /\ \A f \in DOMAIN PHOTO_KV[k] \ {"exif"} :
                           PHOTO_KV'[k][f] = PHOTO_KV[k][f]
                     /\ DOMAIN PHOTO_KV'[k].exif \subseteq
                           DOMAIN PHOTO_KV[k].exif \cup (DOMAIN req'.updates \cap BatchFields)
                     /\ \A f \in DOMAIN PHOTO_KV[k].exif \ (DOMAIN req'.updates \cap BatchFields) :
                           /\ f \in DOMAIN PHOTO_KV'[k].exif
                           /\ PHOTO_KV'[k].exif[f] = PHOTO_KV[k].exif[f]
                ELSE PHOTO_KV'[k] = PHOTO_KV[k]]_vars

\* a batch has set the camera of a record that keeps its lens and its
\* rating, while the record of an id outside the batch is stored
WitnessBatchFrame ==
    /\ resp.op = "batch_update" /\ resp.status = 200
    /\ Len(req.ids) = 1
    /\ resp.results[1].success
    /\ PHOTO_KV[PHOTO_KV[lookupKey(req.ids[1])]].exif.camera = "M11"
    /\ "lens" \in DOMAIN PHOTO_KV[PHOTO_KV[lookupKey(req.ids[1])]].exif
    /\ PHOTO_KV[PHOTO_KV[lookupKey(req.ids[1])]].rating = 5
    /\ \E id \in Ids : id # req.ids[1] /\ Has(PHOTO_KV, lookupKey(id))

\* C12: a delete of an id whose lookup key is absent is answered 404 and
\* leaves the KV store and the bucket as they were.
DeleteOfMissingFails ==
    [][(/\ ops' = ops + 1
        /\ req'.op = "delete"
        /\ req'.authorized
        /\ ~Has(PHOTO_KV, lookupKey(req'.id)))
       => /\ resp'.status = 404
          /\ PHOTO_KV' = PHOTO_KV
          /\ PHOTO_BUCKET' = PHOTO_BUCKET]_vars

\* a delete of an id without a record has been refused while the record of
\* another id is stored
WitnessDeleteOfMissingFails ==
    /\ resp.op = "delete" /\ resp.status = 404
    /\ ~Has(PHOTO_KV, lookupKey(req.id))
    /\ DataKeys(PHOTO_KV) # {}
    /\ PHOTO_BUCKET # EmptyObject

\* C14: a listing of a page whose start offset (page - 1) * pageSize is at
\* or past the number of listed data keys is answered 200 with no item, and
\* the handler selects no key to fetch, for either listing handler.
PageBeyondEndIsEmpty ==
    [][(/\ ops' = ops + 1
        /\ req'.op \in {"list", "list_limit"}
        /\ (req'.page - 1) * req'.pageSize
             >= Len(ListKeys(PHOTO_KV, ScanCeiling)))
       => /\ resp'.status = 200
          /\ resp'.items = <<>>
          /\ PageOf(req'.op, PHOTO_KV, req'.page, req'.pageSize) = <<>>]_vars

\* the page that starts right after the last of two records has been
\* served without an item
WitnessPageBeyondEndIsEmpty ==
    /\ resp.op \in {"list", "list_limit"} /\ resp.status = 200
    /\ req.page = 2 /\ req.pageSize = 2
    /\ Cardinality(DataKeys(PHOTO_KV)) = 2
    /\ resp.items = <<>>

\* the latest request was a new upload that succeeded
CreatedRecord ==
    /\ resp.status = 200
    /\ resp.op \in EditOps \cup {"create"}
    /\ (resp.op = "create" \/ req.id = NoId)

\* the item of a listing shows the fields of the meta M under the id:
\* a rating M does not carry is 0, and an exif field M does not carry is
\* absent or the empty string
ItemShows(item, M, id) ==
    /\ item.id = id
    /\ item.title = M.title
    /\ item.category = M.category
    /\ item.width = M.width
    /\ item.height = M.height
    /\ item.rating = FieldOr(M, "rating", 0)
    /\ \A f \in DOMAIN FieldOr(M, "exif", EmptyObject) :
          f \in DOMAIN item.exif /\ item.exif[f] = M.exif[f]
    /\ \A f \in DOMAIN item.exif \ DOMAIN FieldOr(M, "exif", EmptyObject) :
          item.exif[f] = ""

UploadWithoutFile ==
    IF req'.op = "create" THEN req'.file = NoFile
    ELSE IF req'.op = "upload_edit" THEN req'.file = NoFile
    ELSE UploadedFields(req'.form) = {}

\* the request of this step is malformed: an upload without the meta field,
\* a new upload without a file, or a batch update without ids
Malformed ==
    /\ req'.authorized
    /\ \/ req'.op \in EditOps \cup {"create"} /\ ~req'.hasMeta
       \/ req'.op = "create" /\ UploadWithoutFile
       \/ req'.op \in EditOps /\ req'.hasMeta /\ req'.id = NoId /\ UploadWithoutFile
       \/ req'.op = "batch_update" /\ Len(req'.ids) = 0

\* C17: a malformed mutating request is answered 400 and leaves the KV
\* store and the bucket as they were.
MalformedRejected ==
    [][(ops' = ops + 1 /\ Malformed)
       => /\ resp'.status = 400
          /\ PHOTO_KV' = PHOTO_KV
          /\ PHOTO_BUCKET' = PHOTO_BUCKET]_vars

\* the operations of the mutating endpoints
MutatingOps ==
    {"create", "upload_edit", "upload", "delete", "batch_update", "categories", "presets"}

\* C18: a request to a mutating endpoint without the bearer token of the
\* administrator is answered 401, with a body that holds nothing of the
\* stores, and leaves the KV store and the bucket as they were.
UnauthorizedRejected ==
    [][(/\ ops' = ops + 1
        /\ req'.op \in MutatingOps
        /\ ~req'.authorized)
       => /\ resp'.status = 401
          /\ resp'.results = <<>>
          /\ resp'.items = <<>>
          /\ PHOTO_KV' = PHOTO_KV
          /\ PHOTO_BUCKET' = PHOTO_BUCKET]_vars

\* a request without the token has been refused by the presets endpoint
\* while the stores hold a record
WitnessUnauthorizedRejected ==
    /\ resp.status = 401
    /\ resp.op = "presets"
    /\ ~req.authorized
    /\ DataKeys(PHOTO_KV) # {}
    /\ ~Has(PHOTO_KV, systemKey("presets"))

\* C16: for two creation times t1 < t2 in 0..9999999999999 the decimal
\* string of 9999999999999 - t2 is smaller in byte order than that of
\* 9999999999999 - t1, and the key of t2 comes before the key of t1 in the
\* ascending scan of the keys.
InvertedOrder ==
    (resp.op = "key" /\ NumberLess(req.t1, req.t2)) =>
        /\ StringLess(NumberToString(invertedTs(req.t2)), NumberToString(invertedTs(req.t1)))
        /\ \E i, j \in DOMAIN resp.keys :
              i < j /\ resp.keys[i] = resp.k2 /\ resp.keys[j] = resp.k1

\* C13: a delete, an edit or a batch update that finds the lookup key of
\* its id but no record under the key it names reports a not-found failure
\* and never success.
CorruptionIsNotFound ==
    \A p \in Procs :
        (/\ tasks[p].pc = "done"
         /\ tasks[p].op \in EditOps \cup {"delete", "batch_update"}
         /\ tasks[p].missing)
        => (tasks[p].status = 404 /\ ~tasks[p].success)

\* every request that has arrived has returned, and the latest ones were
\* edits, batch updates or deletes of an id they name
AllCompleted ==
    /\ \E p \in Procs : tasks[p].pc = "done"
    /\ \A p \in Procs :
          /\ ~Running(p)
          /\ tasks[p].pc = "done" =>
                /\ tasks[p].op \in EditOps \cup {"delete", "batch_update"}
                /\ tasks[p].r.id # NoId

\* C19: once all of a set of interleaved edit, batch-update and delete
\* requests have returned, every id has its lookup key and exactly one data
\* key, the one the lookup key holds, or no key of either family.
IndexAfterInterleaving == AllCompleted => IndexInvariant

\* C20: while a delete has removed exactly one of the two keys of its id
\* (it is between its two delete calls), the lookup key of the id exists.
DeleteLookupLast ==
    \A p \in Procs :
        (tasks[p].op = "delete" /\ tasks[p].pc = "delete_data")
        => Has(PHOTO_KV, lookupKey(tasks[p].id))

\* C21: in every intermediate state of a new upload, if the lookup key of
\* its id exists then the data key it names holds a record.
CreatePrimaryFirst ==
    \A p \in Procs :
        (/\ Running(p)
         /\ tasks[p].r.id = NoId
         /\ Has(PHOTO_KV, lookupKey(tasks[p].id)))
        => Has(PHOTO_KV, PHOTO_KV[lookupKey(tasks[p].id)])

\* the listings that have answered
ListingsDone == { p \in Procs : tasks[p].op \in {"list", "list_limit"} /\ tasks[p].pc = "done" }

\* the positions of the page whose get yielded a value
Fetched(t) == { i \in 1..Len(t.got) : t.got[i] # Null }

\* C22: a listing answers 200 whatever the gets of its page yield; its items
\* are the records of the keys whose get yielded a value, in key order, and
\* no item stems from a key without value or from a get that threw.
ListingTolerant ==
    \A p \in ListingsDone :
        LET t == tasks[p]
        IN  /\ t.status = 200
            /\ Len(t.got) = Len(t.keys)
            /\ Len(t.items) = Cardinality(Fetched(t))
            /\ \A i \in Fetched(t) :
                   /\ t.got[i].id = t.keys[i].id
                   /\ t.items[Cardinality({j \in Fetched(t) : j <= i})] =
                          IF t.op = "list" THEN LightItem(t.got[i]) ELSE FullItem(t.got[i])

\* a listing of a page of two keys has answered with the one record it got
WitnessListingTolerant ==
    \E p \in ListingsDone :
        /\ Len(tasks[p].keys) = 2
        /\ tasks[p].got[1] = Null
        /\ Len(tasks[p].items) = 1
        /\ tasks[p].status = 200

\* the deletes that have answered
DeletesDone == { p \in Procs : tasks[p].op = "delete" /\ tasks[p].pc = "done" }

\* C23: a delete whose removal of the referenced object failed still
\* reports success.
DeleteBlobBestEffort ==
    \A p \in DeletesDone : tasks[p].fault => tasks[p].success

\* the slots whose edit of a stored photo takes the step
EditSteps == { p \in Procs : Running(p) /\ tasks[p].r.id # NoId /\ tasks'[p] # tasks[p] }

\* C24: under concurrent edits of a stored id, no call of an edit changes
\* the lookup key or adds a primary key; the one call that writes the record
\* stores title, tags, rating and exif of its own payload, and no other call
\* of an edit touches the record: the stored fields are those of the edit
\* that wrote last, never a mixture.
LastWriterWins ==
    [][\A p \in EditSteps :
          LET lookup == lookupKey(tasks[p].id)
              meta == tasks[p].r.meta
          IN  /\ Has(PHOTO_KV', lookup) /\ PHOTO_KV'[lookup] = PHOTO_KV[lookup]
              /\ DOMAIN PHOTO_KV' = DOMAIN PHOTO_KV
              /\ IF tasks'[p].pc = "done"
                 THEN /\ tasks'[p].status = 200
                      /\ PHOTO_KV'[PHOTO_KV[lookup]].title = meta.title
                      /\ PHOTO_KV'[PHOTO_KV[lookup]].tags = <<meta.category>>
                      /\ PHOTO_KV'[PHOTO_KV[lookup]].rating =
                             (IF "rating" \in DOMAIN meta THEN meta.rating ELSE 0)
                      /\ PHOTO_KV'[PHOTO_KV[lookup]].exif =
                             (IF "exif" \in DOMAIN meta THEN meta.exif ELSE EmptyObject)
                 ELSE PHOTO_KV' = PHOTO_KV]_vars

\* two edits of one id with different payloads ran at the same time and both
\* have answered
WitnessLastWriterWins ==
    /\ \A p \in Procs : tasks[p].pc = "done" /\ tasks[p].op \in {"upload_edit", "upload"}
    /\ tasks[1].id = tasks[2].id
    /\ tasks[1].r.id # NoId /\ tasks[2].r.id # NoId
    /\ tasks[1].r.meta # tasks[2].r.meta
    /\ tasks[1].now # tasks[2].now
    /\ PHOTO_KV[PHOTO_KV[lookupKey(tasks[1].id)]].title = tasks[1].r.meta.title
    /\ PHOTO_KV[PHOTO_KV[lookupKey(tasks[1].id)]].updated_at = tasks[1].now

\* a listing handler has selected the keys of the page of the request
Scanned == resp.op \in {"list", "list_limit"}

\* the offset of the first key of the page of the request
ScanStart == (ClampPage(req.page) - 1) * req.pageSize

\* C25: with more than 1000 data keys stored, a listing selects the keys of
\* its page that lie among the first 1000 in key order and no other: the
\* part below the ceiling of a page that straddles it, and no key, without
\* error, for a page that starts at or beyond it.
ScanCeilingTruncates ==
    (Scanned /\ req.stored > ScanCeiling)
    => /\ resp.status = 200
       /\ resp.keys = [i \in 1..(Min(ScanStart + req.pageSize, ScanCeiling)
                                 - Min(ScanStart, ScanCeiling)) |-> ScanStart + i]

\* a page that straddles the ceiling has been cut
WitnessScanCeilingTruncates ==
    /\ Scanned
    /\ req.stored > ScanCeiling
    /\ ScanStart < ScanCeiling
    /\ ScanStart + req.pageSize > ScanCeiling
    /\ ScanStart + req.pageSize <= req.stored
    /\ Len(resp.keys) = ScanCeiling - ScanStart

\* C26: for every number of stored keys, every page and every page size, the
\* handler that scans min(page * pageSize, 1000) keys selects the keys the
\* handler that scans 1000 keys selects.
ScanLimitEquivalent ==
    Scanned =>
        /\ resp.op = "list_limit" =>
               resp.keys = ListPageOf(StoredKeys(req.stored), req.page, req.pageSize)
        /\ resp.op = "list" =>
               resp.keys = ListLimitPageOf(StoredKeys(req.stored), req.page, req.pageSize)

\* the handler with the smaller scan has selected a full page that is not
\* the first
WitnessScanLimitEquivalent ==
    /\ resp.op = "list_limit"
    /\ req.page > 1
    /\ ScanStart + req.pageSize < req.stored
    /\ Len(resp.keys) = req.pageSize
    /\ resp.keys[1] = ScanStart + 1

\* C27: no stored record references a deleted blob: once the uploads, edits
\* and deletes in flight have answered, every record with a non-empty
\* object_key has its object in the bucket.
NoDanglingBlob ==
    (AllCompleted /\ \A p \in Procs : tasks[p].op # "batch_update") =>
        \A k \in DataKeys(PHOTO_KV) :
            PHOTO_KV[k].object_key # EmptyString
            => Has(PHOTO_BUCKET, PHOTO_KV[k].object_key)

\* the objects of the bucket written for the id: photos/<id><suffix>.jpg
ObjectsOf(bucket, photoId) == { o \in DOMAIN bucket : o[2] = photoId }

\* C28: after a delete of an id that answered success, the bucket holds no
\* object written for the id.
DeleteReleasesBlobs ==
    (req.op = "delete" /\ resp.op = "delete" /\ resp.status = 200)
    => ObjectsOf(PHOTO_BUCKET, req.id) = {}

\* the step is a create, an edit or a delete
WriteOfId == req'.op \in {"create", "upload_edit", "upload", "delete"} /\ ops' = ops + 1

\* the id the request of the step is about: the id it names, or the id its
\* answer gives to a new photo
WrittenId == IF FieldOr(req', "id", NoId) # NoId THEN req'.id ELSE resp'.id

\* C29: a create, an edit or a delete of an id, answered with success or
\* with an error, leaves every key and every bucket object of every other id
\* as it was: lookup key, data key, record, objects.
OtherIdsUntouched ==
    [][WriteOfId =>
          /\ \A k \in DOMAIN PHOTO_KV \cup DOMAIN PHOTO_KV' :
                k.id # WrittenId =>
                    /\ Has(PHOTO_KV, k) /\ Has(PHOTO_KV', k)
                    /\ PHOTO_KV'[k] = PHOTO_KV[k]
          /\ \A o \in DOMAIN PHOTO_BUCKET \cup DOMAIN PHOTO_BUCKET' :
                o[2] # WrittenId =>
                    /\ Has(PHOTO_BUCKET, o) /\ Has(PHOTO_BUCKET', o)
                    /\ PHOTO_BUCKET'[o] = PHOTO_BUCKET[o]]_vars

\* an id has been deleted while another id is stored with its object
WitnessOtherIdsUntouched ==
    /\ req.op = "delete" /\ resp.op = "delete" /\ resp.status = 200
    /\ ~Has(PHOTO_KV, lookupKey(req.id))
    /\ \E j \in Ids \ {req.id} :
          /\ Has(PHOTO_KV, lookupKey(j))
          /\ Has(PHOTO_KV, PHOTO_KV[lookupKey(j)])
          /\ ObjectsOf(PHOTO_BUCKET, j) # {}

\* C30: the photo list of the front end never holds two entries with the
\* same id, whatever the order in which fetches, updates and deletes return.
PhotosDistinct ==
    \A i, j \in DOMAIN photos : i # j => photos[i].id # photos[j].id

\* a load-more fetch has returned a page with a photo the list already held,
\* and the list holds as many entries as there are ids
WitnessPhotosDistinct ==
    \E p \in Procs :
        /\ tasks[p].pc = "done" /\ tasks[p].op = "fetch" /\ ~tasks[p].isReset
        /\ Len(tasks[p].items) = MaxIds
        /\ Len(photos) = MaxIds
        /\ \E i \in DOMAIN photos :
              /\ photos[i].id = tasks[p].items[1].id
              /\ photos[i] # tasks[p].items[1]

====
